---- MODULE Spec2Model ----
(***************************************************************************)
(* County demographics analytics (build_data.py): totals, sub-populations  *)
(* derived from percentage fields, percentages of the whole and threshold  *)
(* filters over a list of CountyDemographics records.                      *)
(*                                                                         *)
(* The functions are pure.  The state machine is a caller that holds one   *)
(* list of counties, calls one function at a time with arguments drawn     *)
(* from small sets, and receives its return value.                         *)
(*                                                                         *)
(* Python ints are integers.  Python floats are binary floating point      *)
(* numbers with round-to-nearest, ties-to-even, on every operation; a      *)
(* float is the record [m, e] standing for m * 2^e, m odd (or m = e = 0).  *)
(* CPython's float has a 53 bit significand; the model keeps MantDig bits. *)
(* Signed zeros, infinities and NaN are not modelled.                      *)
(* Type annotations have no part in what a function returns and are not   *)
(* modelled.                                                               *)
(***************************************************************************)
EXTENDS Integers, Sequences, FiniteSets, TLC

\* Longest list of counties the caller holds.
MaxLen == 3

\* Bits in a float's significand (sys.float_info.mant_dig is 53).
MantDig == 8

----------------------------------------------------------------------------
(* Floating point                                                          *)

Abs(n) == IF n < 0 THEN -n ELSE n

Zero == [m |-> 0, e |-> 0]

\* The canonical record of m * 2^e: an odd significand.
RECURSIVE Canon(_, _)
Canon(m, e) ==
    IF m = 0 THEN Zero
    ELSE IF m % 2 = 0 THEN Canon(m \div 2, e + 1)
    ELSE [m |-> m, e |-> e]

\* num/den * 2^k with 2^(MantDig-1) <= num/den < 2^MantDig, same value.
RECURSIVE Scale(_, _, _)
Scale(num, den, k) ==
    IF num < den * 2^(MantDig - 1) THEN Scale(2 * num, den, k - 1)
    ELSE IF num >= den * 2^MantDig THEN Scale(num, 2 * den, k + 1)
    ELSE <<num, den, k>>

\* The integer nearest to num/den, ties to the even one.
RoundHalfEven(num, den) ==
    LET q == num \div den
        r == num % den
    IN  IF 2 * r > den \/ (2 * r = den /\ q % 2 = 1) THEN q + 1 ELSE q

\* The float nearest to the exact value (n / d) * 2^e, d > 0.
Round(n, d, e) ==
    IF n = 0 THEN Zero
    ELSE LET s == Scale(Abs(n), d, 0)
             q == RoundHalfEven(s[1], s[2])
         IN  Canon(IF n < 0 THEN -q ELSE q, s[3] + e)

\* A decimal literal n/d of the source text or of the data, e.g. 20.9.
Lit(n, d) == Round(n, d, 0)

\* int -> float, as done when an int meets a float in / or *.
FromInt(n) == Round(n, 1, 0)

MinExp(x, y) == IF x.e < y.e THEN x.e ELSE y.e

\* x + y
Add(x, y) ==
    LET lo == MinExp(x, y)
    IN  Round(x.m * 2^(x.e - lo) + y.m * 2^(y.e - lo), 1, lo)

\* x * y
Mul(x, y) == Round(x.m * y.m, 1, x.e + y.e)

\* x / y for y # 0
Div(x, y) == Round(IF y.m < 0 THEN -x.m ELSE x.m, Abs(y.m), x.e - y.e)

\* x < y, exact
Less(x, y) ==
    LET lo == MinExp(x, y)
    IN  x.m * 2^(x.e - lo) < y.m * 2^(y.e - lo)

----------------------------------------------------------------------------
(* Records                                                                 *)

\* data.CountyDemographics(age, county, education, ethnicities, income,
\* population, state), with the attribute names build_data.py reads.
CountyDemographics(age, county, education, ethnicities, income, population, state) ==
    [age |-> age, county |-> county, education |-> education,
     ethnicity |-> ethnicities, income |-> income,
     demographics |-> population, state |-> state]

Bachelor == "Bachelor's Degree or Higher"
HighSchool == "High School or Higher"
Hispanic == "Hispanic or Latino"
TwoOrMore == "Two or More Races"
Poverty == "Persons Below Poverty Level"
Pop2014 == "2014 Population"

Age65 == ("Percent 65 and Older" :> Lit(138, 10))

Population(p2010, p2014) ==
    ("2010 Population" :> p2010) @@ (Pop2014 :> p2014)

Income(percapita, median) ==
    ("Per Capita Income" :> percapita) @@ ("Median Household Income" :> median)

\* The empty dict.
NoKeys == [k \in {} |-> Zero]

\* The counties the caller's lists are drawn from.  Populations are scaled
\* down so that, like real populations and the 53 bit significand, every
\* total is far below 2^MantDig and converts to a float exactly.  One record
\* has a negative population: the functions do not validate their input.
StateCodes == {"AL", "AR", "al"}
EducationKeys == {Bachelor, HighSchool}
EthnicityKeys == {Hispanic, TwoOrMore}
Thresholds == {Zero, Lit(10, 10), Lit(150, 10), Lit(200, 10)}

Autauga ==
    CountyDemographics(Age65, "Autauga County",
        (Bachelor :> Lit(209, 10)) @@ (HighSchool :> Lit(856, 10)),
        (Hispanic :> Lit(27, 10)) @@ (TwoOrMore :> Lit(18, 10)),
        Income(24571, 53682) @@ (Poverty :> Lit(121, 10)),
        Population(54, 55), "AL")

Crawford ==
    CountyDemographics(Age65, "Crawford County",
        (Bachelor :> Lit(143, 10)) @@ (HighSchool :> Lit(822, 10)),
        (Hispanic :> Lit(67, 10)) @@ (TwoOrMore :> Lit(28, 10)),
        Income(19477, 39479) @@ (Poverty :> Lit(202, 10)),
        Population(62, 61), "AR")

\* No Bachelor, Hispanic or Poverty entry.
Sparse ==
    CountyDemographics(Age65, "Sparse County",
        (HighSchool :> Lit(856, 10)),
        (TwoOrMore :> Lit(18, 10)),
        Income(24571, 53682),
        Population(6, 7), "AL")

\* Nobody lives here; its values sit on the thresholds.
Vacant ==
    CountyDemographics(Age65, "Vacant County",
        (Bachelor :> Lit(200, 10)) @@ (HighSchool :> Lit(1000, 10)),
        (Hispanic :> Lit(10, 10)) @@ (TwoOrMore :> Zero),
        Income(0, 0) @@ (Poverty :> Lit(150, 10)),
        Population(0, 0), "AL")

\* A malformed record: a negative population.
Negative ==
    CountyDemographics(Age65, "Negative County",
        (Bachelor :> Lit(1000, 10)) @@ (HighSchool :> Lit(1000, 10)),
        (Hispanic :> Lit(1000, 10)) @@ (TwoOrMore :> Lit(18, 10)),
        Income(24571, 53682) @@ (Poverty :> Lit(1000, 10)),
        Population(3, -3), "AR")

\* Everybody holds a degree.
Campus ==
    CountyDemographics(Age65, "Campus County",
        (Bachelor :> Lit(1000, 10)) @@ (HighSchool :> Lit(1000, 10)),
        (Hispanic :> Zero) @@ (TwoOrMore :> Lit(1, 10)),
        Income(24571, 53682) @@ (Poverty :> Zero),
        Population(3, 3), "AR")

\* Empty education and ethnicity dicts.
Blank ==
    CountyDemographics(Age65, "Blank County",
        NoKeys, NoKeys,
        Income(24571, 53682) @@ (Poverty :> Lit(121, 10)),
        Population(54, 55), "AL")

Counties == {Autauga, Crawford, Sparse, Vacant, Negative, Campus, Blank}

Lists == UNION {[1..n -> Counties] : n \in 0..MaxLen}

----------------------------------------------------------------------------
(* build_data.py                                                           *)

\* dict.get(key, default)
Get(d, key, default) == IF key \in DOMAIN d THEN d[key] ELSE default

\* The outcome of a call: a return value or an exception.
Return(v) == [exc |-> "None", val |-> v]
Raise(name) == [exc |-> name, val |-> "None"]

RECURSIVE population_total_loop(_, _, _)
population_total_loop(counties, i, total_population) ==
    IF i > Len(counties) THEN total_population
    ELSE population_total_loop(counties, i + 1,
             total_population + counties[i].demographics[Pop2014])

\* Mutant: reads '2010 Population' instead of '2014 Population'.
population_total_2010(counties) ==
    LET total[i \in 0..Len(counties)] ==
            IF i = 0 THEN 0
            ELSE total[i - 1] + counties[i].demographics["2010 Population"]
    IN  total[Len(counties)]

\* Mutant: "=" instead of "+=", the total is the last county's population.
population_total_assigned(counties) ==
    IF Len(counties) = 0 THEN 0
    ELSE counties[Len(counties)].demographics[Pop2014]

population_total(counties) == population_total_loop(counties, 1, 0)

\* Mutant: compares the state codes ignoring case.
filter_by_state_ignoring_case(counties, state_abbr) ==
    LET upper(s) == IF s = "al" THEN "AL" ELSE s
    IN  SelectSeq(counties, LAMBDA county : upper(county.state) = upper(state_abbr))

filter_by_state(counties, state_abbr) ==
    SelectSeq(counties, LAMBDA county : county.state = state_abbr)

RECURSIVE population_by_education_loop(_, _, _, _)
population_by_education_loop(counties, education_key, i, total_population) ==
    IF i > Len(counties) THEN total_population
    ELSE LET county == counties[i]
             education_data == county.education
         IN  IF education_key \in DOMAIN education_data
             THEN LET education_percent == education_data[education_key]
                      county_population == county.demographics[Pop2014]
                  IN  population_by_education_loop(counties, education_key, i + 1,
                          Add(total_population,
                              Mul(Div(education_percent, FromInt(100)),
                                  FromInt(county_population))))
             ELSE population_by_education_loop(counties, education_key, i + 1,
                      total_population)

\* Mutant: the percentage is not divided by 100.
population_by_education_undivided(counties, education_key) ==
    LET total[i \in 0..Len(counties)] ==
            IF i = 0 THEN Zero
            ELSE IF education_key \in DOMAIN counties[i].education
            THEN Add(total[i - 1],
                     Mul(counties[i].education[education_key],
                         FromInt(counties[i].demographics[Pop2014])))
            ELSE total[i - 1]
    IN  total[Len(counties)]

population_by_education(counties, education_key) ==
    population_by_education_loop(counties, education_key, 1, Zero)

RECURSIVE population_by_ethnicity_loop(_, _, _, _)
population_by_ethnicity_loop(counties, ethnicity_key, i, total_population) ==
    IF i > Len(counties) THEN total_population
    ELSE LET county == counties[i]
             ethnicity_data == county.ethnicity
         IN  IF ethnicity_key \in DOMAIN ethnicity_data
             THEN LET ethnicity_percent == ethnicity_data[ethnicity_key]
                      county_population == county.demographics[Pop2014]
                  IN  population_by_ethnicity_loop(counties, ethnicity_key, i + 1, Add(total_population,
                              Mul(Div(ethnicity_percent, FromInt(100)),
                                  FromInt(county_population))))
             ELSE population_by_ethnicity_loop(counties, ethnicity_key, i + 1, total_population)

population_by_ethnicity(counties, ethnicity_key) ==
    population_by_ethnicity_loop(counties, ethnicity_key, 1, Zero)

RECURSIVE population_below_poverty_level_loop(_, _, _)
population_below_poverty_level_loop(counties, i, total_population) ==
    IF i > Len(counties) THEN total_population
    ELSE LET county == counties[i]
             poverty_data == county.income
         IN  IF Poverty \in DOMAIN poverty_data
             THEN LET poverty_percent == poverty_data[Poverty]
                      county_population == county.demographics[Pop2014]
                  IN  population_below_poverty_level_loop(counties, i + 1, Add(total_population,
                              Mul(Div(poverty_percent, FromInt(100)),
                                  FromInt(county_population))))
             ELSE population_below_poverty_level_loop(counties, i + 1, total_population)

\* Mutant: a county without the key counts as wholly below the poverty level.
population_below_poverty_level_default(counties) ==
    LET total[i \in 0..Len(counties)] ==
            IF i = 0 THEN Zero
            ELSE Add(total[i - 1],
                     Mul(Div(Get(counties[i].income, Poverty, FromInt(100)),
                             FromInt(100)),
                         FromInt(counties[i].demographics[Pop2014])))
    IN  total[Len(counties)]

population_below_poverty_level(counties) ==
    population_below_poverty_level_loop(counties, 1, Zero)

\* (x / total) * 100 with x a float and total an int; float division by
\* zero raises ZeroDivisionError.
TrueDivTimes100(x, total) ==
    IF total = 0 THEN Raise("ZeroDivisionError")
    ELSE Return(Mul(Div(x, FromInt(total)), FromInt(100)))

\* Mutant: the quotient is not multiplied by 100.
percent_by_education_fraction(counties, education_key) ==
    IF population_total(counties) > 0
    THEN Return(Div(population_by_education(counties, education_key),
                    FromInt(population_total(counties))))
    ELSE Return(Zero)

percent_by_education(counties, education_key) ==
    LET total_population == population_total(counties)
        education_population == population_by_education(counties, education_key)
    IN  IF total_population > 0
        THEN TrueDivTimes100(education_population, total_population)
        ELSE Return(Zero)

\* Mutant: the guard is "!= 0" instead of "> 0".
percent_by_ethnicity_nonzero(counties, ethnicity_key) ==
    IF population_total(counties) # 0
    THEN TrueDivTimes100(population_by_ethnicity(counties, ethnicity_key),
                         population_total(counties))
    ELSE Return(Zero)

percent_by_ethnicity(counties, ethnicity_key) ==
    LET total_population == population_total(counties)
        ethnicity_population == population_by_ethnicity(counties, ethnicity_key)
    IN  IF total_population > 0
        THEN TrueDivTimes100(ethnicity_population, total_population)
        ELSE Return(Zero)

\* Mutant: the guard is ">= 0" instead of "> 0".
percent_below_poverty_level_unguarded(counties) ==
    IF population_total(counties) >= 0
    THEN TrueDivTimes100(population_below_poverty_level(counties),
                         population_total(counties))
    ELSE Return(Zero)

percent_below_poverty_level(counties) ==
    LET total_population == population_total(counties)
        poverty_population == population_below_poverty_level(counties)
    IN  IF total_population > 0
        THEN TrueDivTimes100(poverty_population, total_population)
        ELSE Return(Zero)

\* get(key, 0) > threshold is threshold < get(key, 0); the int default 0
\* compares with a float as 0.0 does.
\* Mutant: ">=" instead of ">".
education_greater_than_or_equal(counties, education_key, threshold) ==
    SelectSeq(counties, LAMBDA county :
        ~Less(Get(county.education, education_key, FromInt(0)), threshold))

education_greater_than(counties, education_key, threshold) ==
    SelectSeq(counties, LAMBDA county :
        Less(threshold, Get(county.education, education_key, FromInt(0))))

\* Mutant: "<=" instead of "<".
education_less_than_or_equal(counties, education_key, threshold) ==
    SelectSeq(counties, LAMBDA county :
        ~Less(threshold, Get(county.education, education_key, FromInt(0))))

education_less_than(counties, education_key, threshold) ==
    SelectSeq(counties, LAMBDA county :
        Less(Get(county.education, education_key, FromInt(0)), threshold))

ethnicity_greater_than(counties, ethnicity_key, threshold) ==
    SelectSeq(counties, LAMBDA county :
        Less(threshold, Get(county.ethnicity, ethnicity_key, FromInt(0))))

\* Mutant: a county without the key is skipped instead of counting as 0.
ethnicity_less_than_present(counties, ethnicity_key, threshold) ==
    SelectSeq(counties, LAMBDA county :
        /\ ethnicity_key \in DOMAIN county.ethnicity
        /\ Less(county.ethnicity[ethnicity_key], threshold))

ethnicity_less_than(counties, ethnicity_key, threshold) ==
    SelectSeq(counties, LAMBDA county :
        Less(Get(county.ethnicity, ethnicity_key, FromInt(0)), threshold))

below_poverty_level_greater_than(counties, threshold) ==
    SelectSeq(counties, LAMBDA county :
        Less(threshold, Get(county.income, Poverty, FromInt(0))))

below_poverty_level_less_than(counties, threshold) ==
    SelectSeq(counties, LAMBDA county :
        Less(Get(county.income, Poverty, FromInt(0)), threshold))

----------------------------------------------------------------------------
(* build_data.py: loading                                                  *)

\* Object identities: no list, the caller's list, a list the call allocated.
NoList == <<"None", 0>>
InputList == <<"counties", 0>>
NewList == <<"new", 0>>

\* A reference: the object it names and, for a list, its items.
None == [obj |-> NoList, items |-> <<>>]

\* Most get_data calls the caller makes.
MaxCalls == 3

Median == "Median Household Income"
Misspelt == "Median Houseold Income"

\* An income dict of the report that spells the median key as the feed does.
Misspell(income) ==
    (Misspelt :> income[Median]) @@ [k \in DOMAIN income \ {Median} |-> income[k]]

\* A county of the report: a dict as county_demographics delivers it.
RawCounty(county, income) ==
    [Age |-> county.age, County |-> county.county,
     Education |-> county.education, Ethnicities |-> county.ethnicity,
     Income |-> income, Population |-> county.demographics,
     State |-> county.state]

\* Report entries: the median key spelt right, misspelt (with and without a
\* poverty entry), present in both spellings, and absent.
RawCounties ==
    {RawCounty(Autauga, Autauga.income),
     RawCounty(Crawford, Misspell(Crawford.income)),
     RawCounty(Sparse, Misspell(Sparse.income)),
     RawCounty(Campus, (Misspelt :> 1) @@ Campus.income),
     RawCounty(Blank, ("Per Capita Income" :> 24571))}

Reports == UNION {[1..n -> RawCounties] : n \in 0..MaxLen}

\* Mutant: the misspelt key is copied but not deleted.
convert_county_income_keeping(county) ==
    IF Misspelt \in DOMAIN county.Income
    THEN (Median :> county.Income[Misspelt]) @@ county.Income
    ELSE county.Income

\* county['Income'] after the if statement of convert_county.
convert_county_income(county) ==
    IF Misspelt \in DOMAIN county.Income
    THEN (Median :> county.Income[Misspelt])
             @@ [k \in DOMAIN county.Income \ {Misspelt} |-> county.Income[k]]
    ELSE county.Income

convert_county(county) ==
    CountyDemographics(county.Age, county.County, county.Education,
                       county.Ethnicities, convert_county_income(county),
                       county.Population, county.State)

\* "not x" for x None or a list.
Not(x) == x.obj = NoList \/ Len(x.items) = 0

\* Mutant: the data set is converted on every call.
get_data_uncached(converted, rep, loads) ==
    LET fresh == [obj |-> <<"_converted", loads + 1>>,
                  items |-> [i \in 1..Len(rep) |-> convert_county(rep[i])]]
    IN  [converted |-> fresh, loads |-> loads + 1, returned |-> fresh]

\* get_data with _converted = converted, after loads invocations of
\* get_report, which returns rep: the new _converted, the invocations so far
\* and the reference returned.  The list built by the loads-th invocation is
\* the object <<"_converted", loads>>.
get_data(converted, rep, loads) ==
    IF Not(converted)
    THEN LET fresh == [obj |-> <<"_converted", loads + 1>>,
                       items |-> [i \in 1..Len(rep) |-> convert_county(rep[i])]]
         IN  [converted |-> fresh, loads |-> loads + 1, returned |-> fresh]
    ELSE [converted |-> converted, loads |-> loads, returned |-> converted]

----------------------------------------------------------------------------
(* The caller                                                              *)

VARIABLES
    cs,               \* the list of counties the caller holds
    pc,               \* "idle", or "returned" right after a call
    call,             \* the last call: [fn, args]
    result,           \* its return value ("None" when there is none)
    raised,           \* the exception it raised ("None" when it returned)
    result_is,        \* which object the returned list is
    report,           \* what county_demographics.get_report() returns
    _converted,       \* the module global _converted
    get_report_calls, \* how often get_report was invoked
    get_data_calls    \* how often get_data was called

vars == <<cs, pc, call, result, raised, result_is,
          report, _converted, get_report_calls, get_data_calls>>

loader == <<report, _converted, get_report_calls, get_data_calls>>

NoCall == [fn |-> "None", args |-> <<>>]

Init ==
    /\ cs \in Lists
    /\ pc = "idle"
    /\ call = NoCall
    /\ result = "None"
    /\ raised = "None"
    /\ result_is = NoList
    /\ report = <<>>
    /\ _converted = None
    /\ get_report_calls = 0
    /\ get_data_calls = 0

\* Mutant: the loop consumes the list, "while counties: counties.pop()".
counties_after_for_loop_popping(counties) == <<>>

\* The list after "for county in counties:" ran over it: the loops assign
\* only to their local total.
counties_after_for_loop(counties) == counties

\* Mutant: the list is filtered in place.
counties_after_comprehension_in_place(counties, kept) == kept

\* The list after "[county for county in counties if ...]" ran over it and
\* kept some of its counties.
counties_after_comprehension(counties, kept) == counties

\* Mutant: the input list itself is returned when every county is kept.
comprehension_is_input_when_all(counties, kept) ==
    IF kept = counties THEN InputList ELSE NewList

\* The object a list comprehension evaluates to: a list of its own.
comprehension_is(counties, kept) == NewList

\* The call fn(args) on the caller's list ends with outcome o, leaves the
\* list as after and returns the object is.
Responds(fn, args, o, after, is) ==
    /\ pc = "idle"
    /\ pc' = "returned"
    /\ call' = [fn |-> fn, args |-> args]
    /\ result' = o.val
    /\ raised' = o.exc
    /\ cs' = after
    /\ result_is' = is
    /\ UNCHANGED loader

\* A call of a summing function that returns value.
Returns(fn, args, value) ==
    Responds(fn, args, Return(value), counties_after_for_loop(cs), NoList)

\* A call of a percent_* function that ends with outcome o.
Ends(fn, args, o) ==
    Responds(fn, args, o, counties_after_for_loop(cs), NoList)

\* A call of a filter that returns the list kept.
Selects(fn, args, kept) ==
    Responds(fn, args, Return(kept), counties_after_comprehension(cs, kept),
             comprehension_is(cs, kept))

CallPopulationTotal ==
    Returns("population_total", <<>>, population_total(cs))

CallFilterByState ==
    \E s \in StateCodes :
        Selects("filter_by_state", <<s>>, filter_by_state(cs, s))

CallPopulationByEducation ==
    \E k \in EducationKeys :
        Returns("population_by_education", <<k>>, population_by_education(cs, k))

CallPopulationByEthnicity ==
    \E k \in EthnicityKeys :
        Returns("population_by_ethnicity", <<k>>, population_by_ethnicity(cs, k))

CallPopulationBelowPovertyLevel ==
    Returns("population_below_poverty_level", <<>>,
            population_below_poverty_level(cs))

CallPercentByEducation ==
    \E k \in EducationKeys :
        Ends("percent_by_education", <<k>>, percent_by_education(cs, k))

CallPercentByEthnicity ==
    \E k \in EthnicityKeys :
        Ends("percent_by_ethnicity", <<k>>, percent_by_ethnicity(cs, k))

CallPercentBelowPovertyLevel ==
    Ends("percent_below_poverty_level", <<>>, percent_below_poverty_level(cs))

CallEducationGreaterThan ==
    \E k \in EducationKeys : \E t \in Thresholds :
        Selects("education_greater_than", <<k, t>>,
                education_greater_than(cs, k, t))

CallEducationLessThan ==
    \E k \in EducationKeys : \E t \in Thresholds :
        Selects("education_less_than", <<k, t>>, education_less_than(cs, k, t))

CallEthnicityGreaterThan ==
    \E k \in EthnicityKeys : \E t \in Thresholds :
        Selects("ethnicity_greater_than", <<k, t>>,
                ethnicity_greater_than(cs, k, t))

CallEthnicityLessThan ==
    \E k \in EthnicityKeys : \E t \in Thresholds :
        Selects("ethnicity_less_than", <<k, t>>, ethnicity_less_than(cs, k, t))

CallBelowPovertyLevelGreaterThan ==
    \E t \in Thresholds :
        Selects("below_poverty_level_greater_than", <<t>>,
                below_poverty_level_greater_than(cs, t))

CallBelowPovertyLevelLessThan ==
    \E t \in Thresholds :
        Selects("below_poverty_level_less_than", <<t>>,
                below_poverty_level_less_than(cs, t))

\* The caller takes the outcome and is ready for its next call.
Continue ==
    /\ pc = "returned"
    /\ pc' = "idle"
    /\ call' = NoCall
    /\ result' = "None"
    /\ raised' = "None"
    /\ result_is' = NoList
    /\ UNCHANGED <<cs, loader>>

Next ==
    \/ CallPopulationTotal
    \/ CallFilterByState
    \/ CallPopulationByEducation
    \/ CallPopulationByEthnicity
    \/ CallPopulationBelowPovertyLevel
    \/ CallPercentByEducation
    \/ CallPercentByEthnicity
    \/ CallPercentBelowPovertyLevel
    \/ CallEducationGreaterThan
    \/ CallEducationLessThan
    \/ CallEthnicityGreaterThan
    \/ CallEthnicityLessThan
    \/ CallBelowPovertyLevelGreaterThan
    \/ CallBelowPovertyLevelLessThan
    \/ Continue

Spec == Init /\ [][Next]_vars

----------------------------------------------------------------------------
(* The caller of the loader                                                *)

LoaderInit ==
    /\ cs = <<>>
    /\ pc = "idle"
    /\ call = NoCall
    /\ result = "None"
    /\ raised = "None"
    /\ result_is = NoList
    /\ report \in Reports
    /\ _converted = None
    /\ get_report_calls = 0
    /\ get_data_calls = 0

CallGetData ==
    /\ pc = "idle"
    /\ get_data_calls < MaxCalls
    /\ LET o == get_data(_converted, report, get_report_calls)
       IN  /\ _converted' = o.converted
           /\ get_report_calls' = o.loads
           /\ result' = o.returned.items
           /\ result_is' = o.returned.obj
    /\ get_data_calls' = get_data_calls + 1
    /\ pc' = "returned"
    /\ call' = [fn |-> "get_data", args |-> <<>>]
    /\ raised' = "None"
    /\ UNCHANGED <<cs, report>>

CallConvertCounty ==
    /\ pc = "idle"
    /\ \E county \in RawCounties :
        /\ call' = [fn |-> "convert_county", args |-> <<county>>]
        /\ result' = convert_county(county)
    /\ pc' = "returned"
    /\ raised' = "None"
    /\ result_is' = NoList
    /\ UNCHANGED <<cs, loader>>

LoaderNext ==
    \/ CallGetData
    \/ CallConvertCounty
    \/ Continue

LoaderSpec == LoaderInit /\ [][LoaderNext]_vars

----------------------------------------------------------------------------
(* What the functions are specified to return, stated without their loops  *)

Returned(fn) == pc = "returned" /\ call.fn = fn

Indices == 1..Len(cs)

\* The sum of the 2014 populations at the indices I of list, in any order.
RECURSIVE TotalAt(_, _)
TotalAt(list, I) ==
    IF I = {} THEN 0
    ELSE LET i == CHOOSE j \in I : TRUE
         IN  list[i].demographics[Pop2014] + TotalAt(list, I \ {i})

Total(list) == TotalAt(list, 1..Len(list))

\* res holds exactly the elements of list at the indices I, in list order.
IsSelection(res, list, I) ==
    /\ Len(res) = Cardinality(I)
    /\ \A i \in I : res[Cardinality({j \in I : j <= i})] = list[i]

InList(county, list) == \E j \in 1..Len(list) : list[j] = county

\* The dict a function family reads: education, ethnicity or income.
HasKey(county, attr, key) == key \in DOMAIN county[attr]

\* (percentage / 100) * population, summed left to right over a list in
\* which every county has the key.
RECURSIVE SumOfShares(_, _, _)
SumOfShares(list, attr, key) ==
    IF Len(list) = 0 THEN Zero
    ELSE LET front == SubSeq(list, 1, Len(list) - 1)
             county == list[Len(list)]
         IN  Add(SumOfShares(front, attr, key),
                 Mul(Div(county[attr][key], FromInt(100)),
                     FromInt(county.demographics[Pop2014])))

SubPopulation(list, attr, key) ==
    SumOfShares(SelectSeq(list, LAMBDA county : HasKey(county, attr, key)),
                attr, key)

\* The attribute and key of the last call, for the three function families.
AttrOf(fn) ==
    IF fn \in {"population_by_education", "percent_by_education",
               "education_greater_than", "education_less_than"}
    THEN "education"
    ELSE IF fn \in {"population_by_ethnicity", "percent_by_ethnicity",
                    "ethnicity_greater_than", "ethnicity_less_than"}
    THEN "ethnicity"
    ELSE "income"

KeyOf(c) == IF AttrOf(c.fn) = "income" THEN Poverty ELSE c.args[1]

ThresholdOf(c) == c.args[Len(c.args)]

\* The value a threshold filter compares: 0 when the key is absent.
ValueOf(county, attr, key) ==
    IF HasKey(county, attr, key) THEN county[attr][key] ELSE Zero

PopulationFns ==
    {"population_by_education", "population_by_ethnicity",
     "population_below_poverty_level"}

PercentFns ==
    {"percent_by_education", "percent_by_ethnicity",
     "percent_below_poverty_level"}

GreaterFns ==
    {"education_greater_than", "ethnicity_greater_than",
     "below_poverty_level_greater_than"}

LessFns ==
    {"education_less_than", "ethnicity_less_than",
     "below_poverty_level_less_than"}

NonNegativePopulations ==
    \A i \in Indices : cs[i].demographics[Pop2014] >= 0

----------------------------------------------------------------------------
(* Claims                                                                  *)

C2_FilterByStateIsSelection ==
    Returned("filter_by_state") =>
        LET s == call.args[1]
            I == {i \in Indices : cs[i].state = s}
        IN  /\ raised = "None"
            /\ IsSelection(result, cs, I)
            /\ \A j \in 1..Len(result) : result[j].state = s
            /\ (I = {} => result = <<>>)

C2_Witness ==
    /\ Returned("filter_by_state")
    /\ Len(cs) = 3
    /\ cs[1].state = call.args[1]
    /\ cs[2].state # call.args[1]
    /\ cs[3].state = call.args[1]
    /\ cs[1] # cs[3]
    /\ result = <<cs[1], cs[3]>>

C5_PercentOfNobodyIsZero ==
    (pc = "returned" /\ call.fn \in PercentFns /\ Total(cs) = 0) =>
        /\ raised = "None"
        /\ result = Zero

C5_Witness ==
    /\ Returned("percent_below_poverty_level")
    /\ Len(cs) = 2
    /\ cs[1].demographics[Pop2014] = 0
    /\ cs[2].demographics[Pop2014] = 0
    /\ HasKey(cs[1], "income", Poverty)
    /\ raised = "None"
    /\ result = Zero

C7_EducationFiltersPartition ==
    (pc = "returned" /\ call.fn \in {"education_greater_than", "education_less_than"}) =>
        LET k == call.args[1]
            t == call.args[2]
            above == IF call.fn = "education_greater_than" THEN result
                     ELSE education_greater_than(cs, k, t)
            below == IF call.fn = "education_less_than" THEN result
                     ELSE education_less_than(cs, k, t)
            equal == {i \in Indices : ValueOf(cs[i], "education", k) = t}
            groups(i) == (IF InList(cs[i], above) THEN 1 ELSE 0)
                             + (IF InList(cs[i], below) THEN 1 ELSE 0)
                             + (IF i \in equal THEN 1 ELSE 0)
        IN  /\ \A j \in 1..Len(above) : ~InList(above[j], below)
            /\ \A i \in Indices : groups(i) = 1
            /\ Len(above) + Len(below) + Cardinality(equal) = Len(cs)

C7_Witness ==
    /\ Returned("education_greater_than")
    /\ call.args = <<Bachelor, Lit(200, 10)>>
    /\ Len(cs) = 3
    /\ result = <<cs[1]>>
    /\ education_less_than(cs, Bachelor, Lit(200, 10)) = <<cs[3]>>
    /\ ValueOf(cs[2], "education", Bachelor) = Lit(200, 10)
    /\ ~HasKey(cs[3], "education", Bachelor)

\* C8: for a positive threshold (1.0 and 'Hispanic or Latino' among them), a
\* county whose ethnicity dict lacks the key is in the result of
\* ethnicity_less_than and not in the result of ethnicity_greater_than.
C8_MissingEthnicityIsBelow ==
    (/\ pc = "returned"
     /\ call.fn \in {"ethnicity_greater_than", "ethnicity_less_than"}
     /\ Less(Zero, call.args[2])) =>
        \A i \in Indices :
            ~HasKey(cs[i], "ethnicity", call.args[1]) =>
                (InList(cs[i], result) <=> call.fn = "ethnicity_less_than")

C8_Witness ==
    /\ Returned("ethnicity_less_than")
    /\ call.args = <<Hispanic, Lit(10, 10)>>
    /\ Len(cs) = 3
    /\ HasKey(cs[1], "ethnicity", Hispanic)
    /\ ~HasKey(cs[2], "ethnicity", Hispanic)
    /\ HasKey(cs[3], "ethnicity", Hispanic)
    /\ result = <<cs[2]>>

\* C9, as claimed: for every list cs and state code s,
\* population_total(filter_by_state(cs, s)) <= population_total(cs).
C9_FilteredTotalAtMostTotal ==
    Returned("filter_by_state") =>
        population_total(result) <= population_total(cs)

\* C9, amended: for every list cs whose counties all have a non-negative
\* 2014 population and every state code s,
\* population_total(filter_by_state(cs, s)) <= population_total(cs).
C9_FilteredTotalAtMostTotalOfNonNegative ==
    (Returned("filter_by_state") /\ NonNegativePopulations) =>
        population_total(result) <= population_total(cs)

C9_Witness ==
    /\ Returned("filter_by_state")
    /\ NonNegativePopulations
    /\ Len(cs) = 3
    /\ Len(result) = 2
    /\ population_total(result) > 0
    /\ population_total(result) < population_total(cs)

\* Every education percentage of every county lies in 0..100.
ValidEducationPercentages ==
    \A i \in Indices : \A k \in DOMAIN cs[i].education :
        /\ ~Less(cs[i].education[k], Zero)
        /\ ~Less(FromInt(100), cs[i].education[k])

\* C10: for a non-empty list in which every 2014 population is a
\* non-negative integer and every education percentage lies in 0..100,
\* percent_by_education(cs, k) lies in 0..100 inclusive for every key k,
\* also when some or all counties lack k.
C10_PercentByEducationInRange ==
    (/\ Returned("percent_by_education")
     /\ Len(cs) > 0
     /\ NonNegativePopulations
     /\ ValidEducationPercentages) =>
        /\ raised = "None"
        /\ ~Less(result, Zero)
        /\ ~Less(FromInt(100), result)

C10_Witness ==
    /\ Returned("percent_by_education")
    /\ call.args[1] = Bachelor
    /\ Len(cs) = 3
    /\ NonNegativePopulations
    /\ ValidEducationPercentages
    /\ ~HasKey(cs[2], "education", Bachelor)
    /\ cs[2].demographics[Pop2014] > 0
    /\ ValueOf(cs[1], "education", Bachelor) = FromInt(100)
    /\ ValueOf(cs[3], "education", Bachelor) = FromInt(100)
    /\ Less(Zero, result)
    /\ Less(result, FromInt(100))

\* C11: for a list holding one county with a positive 2014 population, the
\* percent_* functions return exactly that county's own percentage for the
\* key: the population factor cancels.
C11_SingleCountyPercentIsOwnPercentage ==
    (/\ pc = "returned"
     /\ call.fn \in PercentFns
     /\ Len(cs) = 1
     /\ cs[1].demographics[Pop2014] > 0
     /\ HasKey(cs[1], AttrOf(call.fn), KeyOf(call))) =>
        /\ raised = "None"
        /\ result = cs[1][AttrOf(call.fn)][KeyOf(call)]

FilterFns == {"filter_by_state"} \cup GreaterFns \cup LessFns

C13_ReportLoadedOnce ==
    /\ get_report_calls <= 1
    /\ get_data_calls >= 1 => get_report_calls = 1

\* C14: a raw county whose Income dict has the misspelt key 'Median Houseold
\* Income' is converted to a record whose income has 'Median Household
\* Income' bound to the misspelt key's value, has no misspelt key, and has
\* every other entry unchanged; without the misspelt key the Income dict is
\* converted unchanged.
C14_MisspeltMedianKeyIsRenamed ==
    Returned("convert_county") =>
        LET before == call.args[1].Income
            after == result.income
        IN  /\ raised = "None"
            /\ IF Misspelt \in DOMAIN before
               THEN /\ Median \in DOMAIN after
                    /\ after[Median] = before[Misspelt]
                    /\ Misspelt \notin DOMAIN after
                    /\ DOMAIN after = (DOMAIN before \ {Misspelt}) \cup {Median}
                    /\ \A k \in DOMAIN before \ {Misspelt, Median} :
                           after[k] = before[k]
               ELSE after = before

C14_Witness ==
    /\ Returned("convert_county")
    /\ DOMAIN call.args[1].Income = {Misspelt, "Per Capita Income", Poverty}
    /\ DOMAIN result.income = {Median, "Per Capita Income", Poverty}
    /\ result.income[Median] = 39479
    /\ result.income[Poverty] = call.args[1].Income[Poverty]

\* C15: when the total 2014 population is negative the percent_* functions
\* return 0.0, also when the sub-population is not zero: the guard is
\* "total > 0".
C15_PercentOfNegativeTotalIsZero ==
    (pc = "returned" /\ call.fn \in PercentFns /\ Total(cs) < 0) =>
        /\ raised = "None"
        /\ result = Zero

C15_Witness ==
    /\ Returned("percent_by_ethnicity")
    /\ call.args[1] = Hispanic
    /\ Len(cs) = 2
    /\ Total(cs) < 0
    /\ cs[1].demographics[Pop2014] < 0
    /\ cs[2].demographics[Pop2014] = 0
    /\ SubPopulation(cs, "ethnicity", Hispanic) # Zero
    /\ result = Zero

\* C16: once _converted holds a non-empty list, no later get_data call
\* reassigns it or invokes get_report, and every later get_data call returns
\* that same list object.
C16_NonEmptyCacheIsKept ==
    [][(_converted.obj # NoList /\ Len(_converted.items) > 0) =>
           /\ _converted' = _converted
           /\ get_report_calls' = get_report_calls
           /\ get_data_calls' # get_data_calls =>
                  /\ result_is' = _converted.obj
                  /\ result' = _converted.items]_vars

C16_Witness ==
    /\ Returned("get_data")
    /\ get_data_calls = 3
    /\ get_report_calls = 1
    /\ Len(report) = 2
    /\ Len(result) = 2
    /\ result_is = <<"_converted", 1>>
    /\ _converted = [obj |-> result_is, items |-> result]

====
